---- MODULE Spec2Model ----
(***************************************************************************)
(* The VM provisioning service of main.go and vm-template.xml: the HTTP    *)
(* handler handleCreateVM, its helpers (createQcow2Disk,                   *)
(* generateDomainXML, generateRandomMAC, the response writers) and the     *)
(* descriptor template.  net/http runs one handler goroutine per request,  *)
(* so the requests of Reqs run interleaved, one step per external call.    *)
(*                                                                         *)
(* Text is a sequence of lines (indentation and blank lines dropped; a run *)
(* of fixed lines that no property reads is kept as one string); a         *)
(* template field is spliced into its line with \o, as text/template does  *)
(* (no escaping).  Field values are drawn from markup-free strings.        *)
(* The results of the external collaborators (qemu-img, libvirt, template  *)
(* execution) are drawn nondeterministically.                              *)
(*                                                                         *)
(* The handlers share no variable: SpecOne runs one request over every     *)
(* input, Spec runs NumReq requests concurrently over narrower inputs.     *)
(***************************************************************************)
EXTENDS Integers, Sequences, FiniteSets

\* ------------------------------------------------------------ bounds
\* The concurrent requests: NumReq goroutines of the same handler.
NumReq == 2
Reqs == 1..NumReq
\* The integer request fields of a single request range over -1..MaxVal.
MaxVal == 1
IntVals == (-1)..MaxVal
Names == {"", "vm1", "vm2"}
\* The narrower inputs of the concurrent requests.
ConcurrentInts == {1}
ConcurrentNames == {"", "vm1"}
ConcurrentISOPaths == {"/srv/install.iso"}
ConcurrentOctets == {171}
PrebuiltPaths == {"", "/srv/base.qcow2"}
ISOPaths == {"", "/srv/install.iso"}
\* The values uuid.New() and rand.Intn(256) may return.
UUIDs == {"6ba7b810-9dad-41d1-80b4-00c04fd430c8", "6ba7b811-9dad-41d1-80b4-00c04fd430c8"}
Octets == {10, 255}

\* ------------------------------------------------------------ constants
StatusOK == 200
StatusBadRequest == 400
StatusMethodNotAllowed == 405
StatusInternalServerError == 500
KiBPerMB == 1024

\* ------------------------------------------------------------ data
RequestData(names, isos, ints) ==
    [Name : names, PrebuiltDiskPath : PrebuiltPaths, ISOImage : isos,
     MemoryMB : ints, CPUs : ints, DiskSizeGB : ints]

\* var req RequestData: the zero value
ZeroRequest ==
    [Name |-> "", PrebuiltDiskPath |-> "", ISOImage |-> "",
     MemoryMB |-> 0, CPUs |-> 0, DiskSizeGB |-> 0]

DiskDevice(dev, path) == [Dev |-> dev, Path |-> path]

Methods == {"GET", "POST"}

\* A request body: malformed, or JSON that decodes to a RequestData (a field the
\* JSON leaves out keeps its zero value).
Bodies(names, isos, ints) ==
    {[wellFormed |-> FALSE, value |-> ZeroRequest]}
        \cup {[wellFormed |-> TRUE, value |-> r] : r \in RequestData(names, isos, ints)}

\* ------------------------------------------------------------ formatting
Digits == <<"0", "1", "2", "3", "4", "5", "6", "7", "8", "9">>
HexDigits == <<"0", "1", "2", "3", "4", "5", "6", "7", "8", "9", "a", "b", "c", "d", "e", "f">>

RECURSIVE NatStr(_)
NatStr(n) == IF n < 10 THEN Digits[n + 1] ELSE NatStr(n \div 10) \o Digits[(n % 10) + 1]

\* %d and {{.Field}} of an int
Itoa(n) == IF n < 0 THEN "-" \o NatStr(0 - n) ELSE NatStr(n)

\* %02x of rand.Intn(256)
Hex2(n) == HexDigits[(n \div 16) + 1] \o HexDigits[(n % 16) + 1]

RootDiskPathOf(name) == "/var/lib/libvirt/images/" \o name \o ".qcow2"
DataDiskPathOf(name) == "/var/lib/libvirt/images/" \o name \o "-data.qcow2"

GenerateRandomMAC(o1, o2, o3) ==
    "52:54:00:" \o Hex2(o1) \o ":" \o Hex2(o2) \o ":" \o Hex2(o3)

\* ------------------------------------------------------------ vm-template.xml
\* TemplateData of generateDomainXML
HasISO(r) == r.ISOImage # ""

MakeTemplateData(r, ds, u, mac) ==
    [Name |-> r.Name, UUID |-> u, MemoryKiB |-> r.MemoryMB * KiBPerMB, CPUs |-> r.CPUs,
     MacAddress |-> mac, Disks |-> ds, HasISO |-> HasISO(r), ISOImage |-> r.ISOImage]

TemplateHead(d) ==
    << "<!-- vm-template.xml --> <!-- This template supports: 1. A list of disk devices (root + optional extra). 2. An optional CD-ROM device (if .HasISO is true). 3. Boot order: if ISO is present, boot from cdrom first, then disk; otherwise, boot from disk only. -->",
       "<domain type='kvm'>",
       "<name>" \o d.Name \o "</name>",
       "<uuid>" \o d.UUID \o "</uuid>",
       "<!-- Memory in KiB -->",
       "<memory unit='KiB'>" \o Itoa(d.MemoryKiB) \o "</memory>",
       "<currentMemory unit='KiB'>" \o Itoa(d.MemoryKiB) \o "</currentMemory>",
       "<!-- CPU cores -->",
       "<vcpu placement='static'>" \o Itoa(d.CPUs) \o "</vcpu>",
       "<os>",
       "<type arch='x86_64' machine='pc-q35-7.2'>hvm</type>" >>

\* a plausible slip: the two boot declarations in the wrong order
BootSectionSwapped(d) ==
    IF d.HasISO
    THEN << "<!-- If ISO is present, boot from CD-ROM first -->",
            "<boot dev='hd'/>",
            "<boot dev='cdrom'/>" >>
    ELSE << "<!-- Otherwise, just boot from disk -->",
            "<boot dev='hd'/>" >>

\* {{ if .HasISO }} ... {{ else }} ... {{ end }} of <os>
BootSection(d) ==
    IF d.HasISO
    THEN << "<!-- If ISO is present, boot from CD-ROM first -->",
            "<boot dev='cdrom'/>",
            "<boot dev='hd'/>" >>
    ELSE << "<!-- Otherwise, just boot from disk -->",
            "<boot dev='hd'/>" >>

TemplateMiddle ==
    << "</os> <features> <acpi/> <apic/> <vmport state='off'/> </features> <!-- Host-passthrough CPU, Q35 machine, typical clock & power ops --> <cpu mode='host-passthrough' check='none' migratable='on'/> <clock offset='utc'> <timer name='rtc' tickpolicy='catchup'/> <timer name='pit' tickpolicy='delay'/> <timer name='hpet' present='no'/> </clock> <on_poweroff>destroy</on_poweroff> <on_reboot>restart</on_reboot> <on_crash>destroy</on_crash> <pm> <suspend-to-mem enabled='no'/> <suspend-to-disk enabled='no'/> </pm> <devices> <emulator>/usr/bin/qemu-system-x86_64</emulator>",
       "<!-- Disks: one or more from .Disks -->" >>

\* the body of {{ range .Disks }} for one element
DiskEntry(dd) ==
    << "<disk type='file' device='disk'>",
       "<driver name='qemu' type='qcow2' discard='unmap'/>",
       "<source file='" \o dd.Path \o "'/>",
       "<target dev='" \o dd.Dev \o "' bus='virtio'/>",
       "</disk>" >>

RECURSIVE RangeDisks(_)
RangeDisks(ds) == IF ds = << >> THEN << >> ELSE DiskEntry(Head(ds)) \o RangeDisks(Tail(ds))

DisksSection(d) == RangeDisks(d.Disks)

CdromEntry(d) ==
    << "<!-- If user specified an ISO, attach as CD-ROM. -->",
       "<disk type='file' device='cdrom'>",
       "<driver name='qemu' type='raw'/>",
       "<source file='" \o d.ISOImage \o "'/>",
       "<!-- We use SATA for the CD-ROM device here -->",
       "<target dev='sda' bus='sata'/>",
       "<readonly/>",
       "</disk>" >>

\* a plausible slip: the CD-ROM entry outside its {{ if .HasISO }}
CdromSectionUnguarded(d) == CdromEntry(d)

\* {{ if .HasISO }} ... {{ end }} of <devices>
CdromSection(d) == IF d.HasISO THEN CdromEntry(d) ELSE << >>

TemplateTail(d) ==
    << "<!-- Basic network interface with random MAC -->",
       "<interface type='network'>",
       "<mac address='" \o d.MacAddress \o "'/>",
       "<source network='host-only-net'/>",
       "<model type='virtio'/>",
       "</interface>",
       "<!-- Serial console and Spice/VNC style graphics --> <serial type='pty'> <target type='isa-serial' port='0'/> </serial> <console type='pty'> <target type='serial' port='0'/> </console> <graphics type='spice' autoport='yes'> <listen type='address'/> <image compression='off'/> </graphics> <!-- Memory balloon and RNG --> <memballoon model='virtio'/> <rng model='virtio'> <backend model='random'>/dev/urandom</backend> </rng> </devices> </domain>" >>

\* stringBuffer.Write: *sb.str += string(p)
BufferWrite(str, p) == str \o p

\* domainXMLTemplate.Execute(newBuffer(&outStr), data), when it returns no error
Execute(outStr, d) ==
    BufferWrite(outStr,
        TemplateHead(d) \o BootSection(d) \o TemplateMiddle \o DisksSection(d)
            \o CdromSection(d) \o TemplateTail(d))

\* ------------------------------------------------------------ state
VARIABLES
    pc,       \* per request: where its handler goroutine stands
    method,   \* r.Method
    decoded,  \* whether json Decode(&req) returned no error
    req,      \* var req RequestData
    disks,    \* var disks []DiskDevice
    tdata,    \* the TemplateData of generateDomainXML: << >> or <<data>>
    xml,      \* xmlContent
    w,        \* the http.ResponseWriter
    calls     \* the calls the handler has made, in order, each with its result

vars == <<pc, method, decoded, req, disks, tdata, xml, w, calls>>

Call(op, arg, ok) == [op |-> op, arg |-> arg, ok |-> ok]

\* ------------------------------------------------------------ responses
\* code 0: no header written yet; header: Content-Type as set on w.Header();
\* sent: Content-Type as it went out with the header
NewResponseWriter == [code |-> 0, header |-> "", sent |-> "", body |-> << >>]

TextPlain == "text/plain; charset=utf-8"

WriteHeader(wr, code) ==
    IF wr.code # 0 THEN wr ELSE [wr EXCEPT !.code = code, !.sent = wr.header]

SetContentType(wr, v) == [wr EXCEPT !.header = v]

\* w.Write: an implicit WriteHeader(200); a header sent without Content-Type
\* gets the sniffed type of the body
WriteBody(wr, b) ==
    LET h == WriteHeader(wr, StatusOK)
    IN  [h EXCEPT !.sent = IF h.sent = "" THEN TextPlain ELSE h.sent,
                  !.body = Append(h.body, b)]

\* http.Error: a plain-text body
HttpError(wr, msg, code) ==
    WriteBody(WriteHeader(SetContentType(wr, TextPlain), code),
              [fmt |-> "text", status |-> "", message |-> msg])

\* json.NewEncoder(w).Encode(ResponseData{...})
EncodeJSON(wr, status, msg) ==
    WriteBody(wr, [fmt |-> "json", status |-> status, message |-> msg])

WriteSuccessResponse(wr, msg) ==
    EncodeJSON(SetContentType(wr, "application/json"), "success", msg)

WriteErrorResponse(wr, msg) ==
    EncodeJSON(SetContentType(WriteHeader(wr, StatusInternalServerError),
                              "application/json"),
               "error", msg)

\* ------------------------------------------------------------ handleCreateVM
\* a plausible slip: the CPU count left out of the validation
InvalidRequestNoCPUs(r) == r.Name = "" \/ r.MemoryMB <= 0

\* Basic validation
InvalidRequest(r) == r.Name = "" \/ r.MemoryMB <= 0 \/ r.CPUs <= 0

\* a plausible slip: a per-name lock, taken before the root disk is made and held
\* until the response is written
AtStepLocked(i, s) ==
    /\ pc[i] = s
    /\ s = "root" =>
          \A j \in Reqs \ {i} :
              ~(pc[j] \in {"data", "connect", "generate", "define", "start"}
                    /\ req[j].Name = req[i].Name)

\* The handler of request i stands at step s; nothing else gates a step.
AtStep(i, s) == pc[i] = s

\* a plausible slip: an error branch without its return
StepNextNoReturn(ok, next) == next

\* if err != nil { ...; return }
StepNext(ok, next) == IF ok THEN next ELSE "done"

\* a plausible slip: a second disk whenever a size is given
DataDiskWantedAnyRoot(r) == r.DiskSizeGB > 0

DataDiskWanted(r) == r.PrebuiltDiskPath # "" /\ r.DiskSizeGB > 0

\* createQcow2Disk(path, sizeGB); execOk: whether qemu-img exits with 0
CreateQcow2Disk(path, sizeGB, execOk) ==
    IF sizeGB <= 0
    THEN [ok |-> FALSE, calls |-> <<Call("createQcow2Disk", path, FALSE)>>]
    ELSE [ok |-> execOk,
          calls |-> <<Call("createQcow2Disk", path, execOk), Call("qemu-img", path, execOk)>>]

\* a plausible slip: the cleanup left out
StartFailureCleanupNone(name, undefineOk) == << >>

\* _ = dom.Undefine()
StartFailureCleanup(name, undefineOk) == <<Call("dom.Undefine", name, undefineOk)>>

\* a plausible slip: one buffer shared by the requests instead of a fresh local
OutStrShared(i) == xml[CHOOSE j \in Reqs : j # i]

\* var outStr string
OutStr(i) == << >>

\* defer conn.Close(); defer dom.Free()
DeferredConn(name) == <<Call("conn.Close", name, TRUE)>>
DeferredDom(name) == <<Call("dom.Free", name, TRUE)>> \o DeferredConn(name)
\* the deferred calls run when the handler returns
OnReturn(next, deferred) == IF next = "done" THEN deferred ELSE << >>

Init ==
    /\ pc = [i \in Reqs |-> "idle"]
    /\ method = [i \in Reqs |-> ""]
    /\ decoded = [i \in Reqs |-> FALSE]
    /\ req = [i \in Reqs |-> ZeroRequest]
    /\ disks = [i \in Reqs |-> << >>]
    /\ tdata = [i \in Reqs |-> << >>]
    /\ xml = [i \in Reqs |-> << >>]
    /\ w = [i \in Reqs |-> NewResponseWriter]
    /\ calls = [i \in Reqs |-> << >>]

\* A request arrives and runs up to the end of the validation: no external call.
\* The requests are numbered in their order of arrival.
HandleEntry(i, bodies) ==
    /\ AtStep(i, "idle")
    /\ \A j \in Reqs : j < i => pc[j] # "idle"
    /\ \E m \in Methods, b \in bodies :
          LET isPost == m = "POST"
              r == IF isPost /\ b.wellFormed THEN b.value ELSE ZeroRequest
          IN  /\ method' = [method EXCEPT ![i] = m]
              /\ decoded' = [decoded EXCEPT ![i] = isPost /\ b.wellFormed]
              /\ req' = [req EXCEPT ![i] = r]
              /\ IF ~isPost
                 THEN /\ w' = [w EXCEPT ![i] = HttpError(@, "Only POST is allowed",
                                                         StatusMethodNotAllowed)]
                      /\ pc' = [pc EXCEPT ![i] = "done"]
                 ELSE IF ~b.wellFormed
                 THEN /\ w' = [w EXCEPT ![i] = HttpError(@, "Invalid JSON input",
                                                         StatusBadRequest)]
                      /\ pc' = [pc EXCEPT ![i] = "done"]
                 ELSE IF InvalidRequest(r)
                 THEN /\ w' = [w EXCEPT ![i] = HttpError(@, "Missing/invalid request fields",
                                                         StatusBadRequest)]
                      /\ pc' = [pc EXCEPT ![i] = "done"]
                 ELSE /\ w' = w
                      /\ pc' = [pc EXCEPT ![i] = "root"]
    /\ UNCHANGED <<disks, tdata, xml, calls>>

\* STEP 1, the root disk: the prebuilt one, or a new one made by qemu-img
RootDisk(i) ==
    /\ AtStep(i, "root")
    /\ \E execOk \in BOOLEAN :
          LET r == req[i]
              path == RootDiskPathOf(r.Name)
              res == CreateQcow2Disk(path, r.DiskSizeGB, execOk)
          IN  IF r.PrebuiltDiskPath # ""
              THEN /\ disks' = [disks EXCEPT ![i] = Append(@, DiskDevice("vda", r.PrebuiltDiskPath))]
                   /\ pc' = [pc EXCEPT ![i] = "data"]
                   /\ UNCHANGED <<w, calls>>
              ELSE /\ calls' = [calls EXCEPT ![i] = @ \o res.calls]
                   /\ pc' = [pc EXCEPT ![i] = StepNext(res.ok, "data")]
                   /\ IF res.ok
                      THEN /\ disks' = [disks EXCEPT ![i] = Append(@, DiskDevice("vda", path))]
                           /\ w' = w
                      ELSE /\ w' = [w EXCEPT ![i] = WriteErrorResponse(@, "Failed to create root disk")]
                           /\ disks' = disks
    /\ UNCHANGED <<method, decoded, req, tdata, xml>>

\* STEP 1, the optional data disk
DataDisk(i) ==
    /\ AtStep(i, "data")
    /\ \E execOk \in BOOLEAN :
          LET r == req[i]
              path == DataDiskPathOf(r.Name)
              res == CreateQcow2Disk(path, r.DiskSizeGB, execOk)
          IN  IF DataDiskWanted(r)
              THEN /\ calls' = [calls EXCEPT ![i] = @ \o res.calls]
                   /\ pc' = [pc EXCEPT ![i] = StepNext(res.ok, "connect")]
                   /\ IF res.ok
                      THEN /\ disks' = [disks EXCEPT ![i] = Append(@, DiskDevice("vdb", path))]
                           /\ w' = w
                      ELSE /\ w' = [w EXCEPT ![i] = WriteErrorResponse(@, "Failed to create additional data disk")]
                           /\ disks' = disks
              ELSE /\ pc' = [pc EXCEPT ![i] = "connect"]
                   /\ UNCHANGED <<w, calls, disks>>
    /\ UNCHANGED <<method, decoded, req, tdata, xml>>

\* STEP 2: libvirt.NewConnect
Connect(i) ==
    /\ AtStep(i, "connect")
    /\ \E ok \in BOOLEAN :
          /\ calls' = [calls EXCEPT ![i] = Append(@, Call("libvirt.NewConnect", "qemu:///system", ok))]
          /\ pc' = [pc EXCEPT ![i] = StepNext(ok, "generate")]
          /\ w' = IF ok THEN w
                  ELSE [w EXCEPT ![i] = WriteErrorResponse(@, "Failed to connect libvirt")]
    /\ UNCHANGED <<method, decoded, req, disks, tdata, xml>>

\* STEP 3: generateDomainXML; octets: what rand.Intn(256) may return; ok: whether
\* Execute returns no error
Generate(i, octets) ==
    /\ AtStep(i, "generate")
    /\ \E u \in UUIDs, o1 \in octets, o2 \in octets, o3 \in octets, ok \in BOOLEAN :
          LET data == MakeTemplateData(req[i], disks[i], u, GenerateRandomMAC(o1, o2, o3))
          IN  IF ok
              THEN /\ tdata' = [tdata EXCEPT ![i] = <<data>>]
                   /\ xml' = [xml EXCEPT ![i] = Execute(OutStr(i), data)]
                   /\ calls' = [calls EXCEPT ![i] = Append(@, Call("generateDomainXML", req[i].Name, TRUE))]
                   /\ pc' = [pc EXCEPT ![i] = StepNext(TRUE, "define")]
                   /\ w' = w
              ELSE /\ calls' = [calls EXCEPT ![i] =
                                   Append(@, Call("generateDomainXML", req[i].Name, FALSE))
                                       \o OnReturn(StepNext(FALSE, "define"),
                                                   DeferredConn(req[i].Name))]
                   /\ pc' = [pc EXCEPT ![i] = StepNext(FALSE, "define")]
                   /\ w' = [w EXCEPT ![i] = WriteErrorResponse(@, "Failed to generate domain XML")]
                   /\ UNCHANGED <<tdata, xml>>
    /\ UNCHANGED <<method, decoded, req, disks>>

\* STEP 4: conn.DomainDefineXML
Define(i) ==
    /\ AtStep(i, "define")
    /\ \E ok \in BOOLEAN :
          /\ calls' = [calls EXCEPT ![i] =
                          Append(@, Call("DomainDefineXML", req[i].Name, ok))
                              \o OnReturn(StepNext(ok, "start"), DeferredConn(req[i].Name))]
          /\ pc' = [pc EXCEPT ![i] = StepNext(ok, "start")]
          /\ w' = IF ok THEN w
                  ELSE [w EXCEPT ![i] = WriteErrorResponse(@, "DomainDefineXML failed")]
    /\ UNCHANGED <<method, decoded, req, disks, tdata, xml>>

\* STEP 5: dom.Create, its cleanup when it fails, and the response
Start(i) ==
    /\ AtStep(i, "start")
    /\ \E ok \in BOOLEAN, undefineOk \in BOOLEAN :
          /\ calls' = [calls EXCEPT ![i] =
                          Append(@, Call("dom.Create", req[i].Name, ok))
                              \o (IF ok THEN << >> ELSE StartFailureCleanup(req[i].Name, undefineOk))
                              \o DeferredDom(req[i].Name)]
          /\ pc' = [pc EXCEPT ![i] = "done"]
          /\ w' = [w EXCEPT ![i] =
                      IF ok THEN WriteSuccessResponse(@, "VM created and started successfully")
                      ELSE WriteErrorResponse(@, "Failed to start domain")]
    /\ UNCHANGED <<method, decoded, req, disks, tdata, xml>>

\* the steps of a request past the validation, one per external call
StepOf(i, octets) ==
    \/ RootDisk(i)
    \/ DataDisk(i)
    \/ Connect(i)
    \/ Generate(i, octets)
    \/ Define(i)
    \/ Start(i)

\* The requests, handled concurrently.
Next ==
    \E i \in Reqs :
        \/ HandleEntry(i, Bodies(ConcurrentNames, ConcurrentISOPaths, ConcurrentInts))
        \/ StepOf(i, ConcurrentOctets)

Spec == Init /\ [][Next]_vars

\* One request, over every input.
NextOne ==
    \/ HandleEntry(1, Bodies(Names, ISOPaths, IntVals))
    \/ StepOf(1, Octets)

SpecOne == Init /\ [][NextOne]_vars

\* ------------------------------------------------------------ properties
Done(i) == pc[i] = "done"
Arrived(i) == pc[i] # "idle"
Generated(i) == tdata[i] # << >>
CountOp(cs, op) == Cardinality({k \in DOMAIN cs : cs[k].op = op})
LineCount(t, l) == Cardinality({k \in DOMAIN t : t[k] = l})
LinesIn(t, S) == {k \in DOMAIN t : t[k] \in S}

\* the request passed the method check, the decoding and the validation
PassedValidation(i) ==
    /\ Arrived(i) /\ method[i] = "POST" /\ decoded[i]
    /\ req[i].Name # "" /\ req[i].MemoryMB > 0 /\ req[i].CPUs > 0

\* C1: a POST request with an empty name, or memory_mb <= 0, or cpus <= 0 is
\* rejected (400) before any side effect: no createQcow2Disk, no connection, no
\* descriptor, no define, no start.
C1_RejectedBeforeSideEffect ==
    \A i \in Reqs :
        (Arrived(i) /\ method[i] = "POST"
            /\ (req[i].Name = "" \/ req[i].MemoryMB <= 0 \/ req[i].CPUs <= 0))
        => /\ Done(i)
           /\ w[i].code = StatusBadRequest
           /\ calls[i] = << >>
           /\ disks[i] = << >>
           /\ tdata[i] = << >>
           /\ xml[i] = << >>

\* Only one of the three conditions holds (a negative cpus), and the request
\* would otherwise have created a root disk.
C1_Witness ==
    \E i \in Reqs :
        /\ Done(i) /\ decoded[i] /\ req[i].Name # "" /\ req[i].MemoryMB > 0 /\ req[i].CPUs < 0
        /\ req[i].PrebuiltDiskPath = "" /\ req[i].DiskSizeGB > 0
        /\ calls[i] = << >> /\ w[i].code = StatusBadRequest

\* the downstream steps of the error taxonomy
DownstreamOps ==
    {"createQcow2Disk", "libvirt.NewConnect", "generateDomainXML", "DomainDefineXML", "dom.Create"}
DownstreamFailed(i) == \E k \in DOMAIN calls[i] : calls[i][k].op \in DownstreamOps /\ ~calls[i][k].ok
\* an input the request needs is absent or not positive; disk_size_gb is the size
\* of the root disk when no prebuilt disk is given
MissingInput(r) ==
    \/ r.Name = "" \/ r.MemoryMB <= 0 \/ r.CPUs <= 0
    \/ (r.PrebuiltDiskPath = "" /\ r.DiskSizeGB <= 0)

\* C2: the status follows the error taxonomy: 405 for a method other than POST,
\* 400 for malformed or missing/non-positive input, 500 for a failed downstream
\* step, a success status only when every step succeeded; no request with missing
\* input ends in 500.
C2_ErrorTaxonomy ==
    \A i \in Reqs :
        Done(i) =>
            /\ method[i] # "POST" => w[i].code = StatusMethodNotAllowed
            /\ (method[i] = "POST" /\ (~decoded[i] \/ MissingInput(req[i])))
                   => w[i].code = StatusBadRequest
            /\ (method[i] = "POST" /\ decoded[i] /\ ~MissingInput(req[i]) /\ DownstreamFailed(i))
                   => w[i].code = StatusInternalServerError
            /\ w[i].code = StatusOK
                   => (~DownstreamFailed(i) /\ CountOp(calls[i], "dom.Create") = 1)

\* C3: every response has a JSON body {status, message?}.
C3_EveryBodyIsJSON ==
    \A i \in Reqs :
        \A k \in DOMAIN w[i].body :
            w[i].body[k].fmt = "json" /\ w[i].body[k].status \in {"success", "error"}

CreateFailed(i) == \E k \in DOMAIN calls[i] : calls[i][k].op = "dom.Create" /\ ~calls[i][k].ok

\* C4: a failed dom.Create (after a successful define) is followed by exactly one
\* Undefine, whose result changes nothing: the answer is the one 500 error; no
\* other path calls Undefine, and Create is called at most once.
C4_UndefineOnlyAfterFailedStart ==
    \A i \in Reqs :
        LET cs == calls[i] IN
        /\ CountOp(cs, "dom.Create") <= 1
        /\ CountOp(cs, "dom.Undefine") = (IF CreateFailed(i) THEN 1 ELSE 0)
        /\ \A k \in DOMAIN cs :
              cs[k].op = "dom.Undefine" => (k > 1 /\ cs[k - 1].op = "dom.Create" /\ ~cs[k - 1].ok)
        /\ \A k \in DOMAIN cs :
              cs[k].op = "dom.Create" =>
                  (k > 1 /\ cs[k - 1].op = "DomainDefineXML" /\ cs[k - 1].ok)
        /\ CreateFailed(i) =>
              /\ Done(i)
              /\ w[i].code = StatusInternalServerError
              /\ w[i].body = <<[fmt |-> "json", status |-> "error",
                                message |-> "Failed to start domain"]>>

\* The cleanup itself failed, and the answer is the 500 of the failed start.
C4_Witness ==
    \E i \in Reqs :
        /\ CreateFailed(i)
        /\ \E k \in DOMAIN calls[i] : calls[i][k].op = "dom.Undefine" /\ ~calls[i][k].ok
        /\ Done(i) /\ w[i].code = StatusInternalServerError

\* the boot-device declarations and storage entries a descriptor can hold
BootDecls == {"<boot dev='hd'/>", "<boot dev='cdrom'/>", "<boot dev='network'/>", "<boot dev='fd'/>"}
DiskOpen == "<disk type='file' device='disk'>"
CdromOpen == "<disk type='file' device='cdrom'>"
\* the k-th (from 1) line of t, in order, that equals l
NthLine(t, l, n) ==
    CHOOSE k \in DOMAIN t :
        t[k] = l /\ Cardinality({m \in DOMAIN t : m < k /\ t[m] = l}) = n - 1
\* the entry of one DiskDevice
ExpectedDiskEntry(dd) ==
    << DiskOpen, "<driver name='qemu' type='qcow2' discard='unmap'/>",
       "<source file='" \o dd.Path \o "'/>", "<target dev='" \o dd.Dev \o "' bus='virtio'/>",
       "</disk>" >>
\* one entry per DiskDevice, in list order
DiskEntriesMatch(t, ds) ==
    /\ LineCount(t, DiskOpen) = Len(ds)
    /\ \A n \in DOMAIN ds :
          LET k == NthLine(t, DiskOpen, n)
          IN  k + 4 <= Len(t) /\ SubSeq(t, k, k + 4) = ExpectedDiskEntry(ds[n])

ExpectedDisks(r) ==
    IF r.PrebuiltDiskPath # ""
    THEN IF r.DiskSizeGB > 0
         THEN << [Dev |-> "vda", Path |-> r.PrebuiltDiskPath],
                 [Dev |-> "vdb", Path |-> "/var/lib/libvirt/images/" \o r.Name \o "-data.qcow2"] >>
         ELSE << [Dev |-> "vda", Path |-> r.PrebuiltDiskPath] >>
    ELSE << [Dev |-> "vda", Path |-> "/var/lib/libvirt/images/" \o r.Name \o ".qcow2"] >>
\* the handler has reached descriptor generation
ReachedGeneration(i) ==
    pc[i] \in {"generate", "define", "start"} \/ CountOp(calls[i], "generateDomainXML") > 0

\* C7: the device list handed to descriptor generation is a function of the
\* request: [vda prebuilt, vdb data] with a prebuilt path and disk_size_gb > 0,
\* one vda element otherwise; the first element is the root on vda, the slot
\* names are distinct, and the installation image plays no part.
C7_DiskListFromRequest ==
    \A i \in Reqs :
        ReachedGeneration(i) =>
            /\ disks[i] = ExpectedDisks(req[i])
            /\ disks[i] = ExpectedDisks([req[i] EXCEPT !.ISOImage = ""])
            /\ Len(disks[i]) \in {1, 2}
            /\ disks[i][1].Dev = "vda"
            /\ \A a, b \in DOMAIN disks[i] : a # b => disks[i][a].Dev # disks[i][b].Dev
            /\ Generated(i) => tdata[i][1].Disks = disks[i]

\* a two-element list (prebuilt root, new data disk, with an image) handed to
\* generation
C7_Witness ==
    \E i \in Reqs :
        /\ Generated(i) /\ req[i].PrebuiltDiskPath # "" /\ req[i].DiskSizeGB > 0
        /\ req[i].ISOImage # "" /\ Len(disks[i]) = 2 /\ disks[i][2].Dev = "vdb"

\* C8 as claimed: two renders for the same request and the same device list give
\* the same text.
C8_SameRequestSameText ==
    \A i, j \in Reqs :
        (Generated(i) /\ Generated(j) /\ req[i] = req[j] /\ disks[i] = disks[j])
            => xml[i] = xml[j]

UUIDLine(d) == "<uuid>" \o d.UUID \o "</uuid>"
MACLine(d) == "<mac address='" \o d.MacAddress \o "'/>"

\* C8 as amended: the UUID and the MAC are drawn once per generateDomainXML call,
\* before the template runs, and reach the text only through the TemplateData;
\* two renders of equal TemplateData give the same text, and two renders for the
\* same request and device list differ at most in the UUID and MAC lines.
C8_SameContextSameText ==
    /\ \A i \in Reqs :
          Generated(i) =>
              /\ LineCount(xml[i], UUIDLine(tdata[i][1])) = 1
              /\ LineCount(xml[i], MACLine(tdata[i][1])) = 1
    /\ \A i, j \in Reqs :
          (i < j /\ Generated(i) /\ Generated(j)) =>
              /\ tdata[i] = tdata[j] => xml[i] = xml[j]
              /\ (req[i] = req[j] /\ disks[i] = disks[j]) =>
                    /\ Len(xml[i]) = Len(xml[j])
                    /\ \A k \in DOMAIN xml[i] :
                          xml[i][k] # xml[j][k] =>
                              xml[i][k] \in {UUIDLine(tdata[i][1]), MACLine(tdata[i][1])}

\* two requests rendered from equal TemplateData
C8_Witness ==
    Generated(1) /\ Generated(2) /\ tdata[1] = tdata[2] /\ xml[1] = xml[2] /\ xml[1] # << >>

\* the steps of the fixed sequence, in order; the root disk before the data disk
StepRank(c) ==
    IF c.op = "createQcow2Disk" THEN 1
    ELSE IF c.op = "libvirt.NewConnect" THEN 2
    ELSE IF c.op = "generateDomainXML" THEN 3
    ELSE IF c.op = "DomainDefineXML" THEN 4
    ELSE 5
IsStep(c) == c.op \in DownstreamOps
StepsOf(i) == SelectSeq(calls[i], IsStep)
SuccessWritten(i) == \E k \in DOMAIN w[i].body : w[i].body[k].status = "success"

\* C9: a validated request runs disk creation, connection, generation, define,
\* start in this order, each at most once and only after the earlier ones
\* succeeded; the first failure ends it with exactly one error response; the
\* success response comes only after a successful start.
C9_FixedSequence ==
    \A i \in Reqs :
        PassedValidation(i) =>
            LET st == StepsOf(i) IN
            /\ \A a, b \in DOMAIN st : a < b => (StepRank(st[a]) < StepRank(st[b]) /\ st[a].ok)
            /\ \A a \in DOMAIN st :
                  /\ StepRank(st[a]) >= 2 => disks[i] = ExpectedDisks(req[i])
                  /\ StepRank(st[a]) >= 3 =>
                        (a > 1 /\ StepRank(st[a - 1]) = StepRank(st[a]) - 1)
            /\ (\E a \in DOMAIN st : ~st[a].ok) =>
                  /\ Done(i)
                  /\ w[i].code = StatusInternalServerError
                  /\ Len(w[i].body) = 1
                  /\ w[i].body[1].status = "error"
            /\ ~Done(i) => w[i].body = << >>
            /\ Done(i) => Len(w[i].body) = 1
            /\ SuccessWritten(i) =>
                  (Len(st) > 0 /\ st[Len(st)].op = "dom.Create" /\ st[Len(st)].ok)
            /\ (Done(i) /\ \A a \in DOMAIN st : st[a].ok) => SuccessWritten(i)

\* a request stopped at a failed define, the fourth step, with its one error
\* response
C9_Witness ==
    \E i \in Reqs :
        /\ PassedValidation(i) /\ Done(i) /\ Len(StepsOf(i)) = 4
        /\ ~StepsOf(i)[4].ok /\ StepsOf(i)[4].op = "DomainDefineXML"
        /\ Len(w[i].body) = 1 /\ w[i].code = StatusInternalServerError

\* C10: nothing serializes requests by name: a request that has passed the
\* validation can always take its next step, whatever the other request (of the
\* same name or not) has done, so both can create the same file and define the
\* same name.
C10_NoSerialization ==
    \A i \in Reqs : (Arrived(i) /\ ~Done(i)) => ENABLED StepOf(i, ConcurrentOctets)

\* both requests of one name in flight at once, each having invoked disk creation
\* on the same name-derived path and submitted a definition of the same name
C10_Witness ==
    /\ req[1].Name = req[2].Name /\ pc[1] = "start" /\ pc[2] = "start"
    /\ \E a \in DOMAIN calls[1], b \in DOMAIN calls[2] :
          /\ calls[1][a].op = "qemu-img" /\ calls[2][b].op = "qemu-img"
          /\ calls[1][a].arg = calls[2][b].arg
          /\ calls[1][a].arg = "/var/lib/libvirt/images/" \o req[1].Name \o ".qcow2"
    /\ \E a \in DOMAIN calls[1], b \in DOMAIN calls[2] :
          /\ calls[1][a].op = "DomainDefineXML" /\ calls[2][b].op = "DomainDefineXML"
          /\ calls[1][a].arg = calls[2][b].arg

====
